---------------------------- MODULE Spec2Model ----------------------------
(***************************************************************************)
(* Khai's Weekly Chess Puzzle: the puzzle-progression state machine of     *)
(* App (tryPlayerMove, hint staging, timer, restart, score submission)     *)
(* over the chess rules adapter it calls.                                  *)
(*                                                                         *)
(* Strings are sequences of one-character strings, so that slicing,       *)
(* concatenation and comparison are computed as the code computes them.   *)
(***************************************************************************)
EXTENDS Integers, Sequences, FiniteSets, TLC

(***************************************************************************)
(* Bounds of the model.                                                    *)
(***************************************************************************)
\* Date.now() when the page is mounted (any positive instant).
NowInit == 1
\* Granularity of the wall clock: the clock advances in steps of TimeStep ms.
TimeStep == 100
\* The clock stops advancing once it has reached MaxTime.
MaxTime == 201
\* Mistakes are counted up to MaxMistakes; a further wrong move is not explored.
MaxMistakes == 1
\* At most MaxRows score rows are submitted in one behaviour.
MaxRows == 1
\* Every name of at most MaxShortName characters is given to clampName.
MaxShortName == 5

(***************************************************************************)
(* Small helpers.                                                          *)
(***************************************************************************)
Abs(x) == IF x < 0 THEN -x ELSE x
Sgn(x) == IF x < 0 THEN -1 ELSE IF x > 0 THEN 1 ELSE 0
Max(a, b) == IF a >= b THEN a ELSE b
Min(a, b) == IF a <= b THEN a ELSE b

\* String.prototype.slice(a, b) for 0 <= a, b (0-based, end exclusive).
Slice(s, a, b) == SubSeq(s, Min(a, Len(s)) + 1, Min(b, Len(s)))

UpperLetters == <<"A","B","C","D","E","F","G","H","K","N","P","Q","R">>
LowerLetters == <<"a","b","c","d","e","f","g","h","k","n","p","q","r">>
\* String.prototype.toLowerCase, one character.
LowerChar(c) ==
  IF \E i \in DOMAIN UpperLetters : UpperLetters[i] = c
  THEN LowerLetters[CHOOSE i \in DOMAIN UpperLetters : UpperLetters[i] = c]
  ELSE c
toLowerCase(s) == [i \in DOMAIN s |-> LowerChar(s[i])]

(***************************************************************************)
(* puzzles.ts: the catalog.                                                *)
(***************************************************************************)
PUZZLES ==
  << [ id    |-> "wk-midgame-italian-5",
       title |-> "Weekly Midgame Puzzle (5 moves)",
       fen   |->
         <<"r","1","b","q","k","2","r","/","p","p","p","p","1","p",
           "p","p","/","2","n","2","n","2","/","2","b","5","/","2",
           "B","p","P","3","/","2","P","2","N","2","/","P","P","3",
           "P","P","P","/","R","N","B","Q","K","2","R"," ","w"," ",
           "K","Q","k","q"," ","-"," ","0"," ","6">>,
       solution |->
         << <<"c","3","d","4">>,   \* YOU 1
            <<"c","5","b","4">>,   \* CPU 1 (Bb4+)
            <<"b","1","c","3">>,   \* YOU 2
            <<"f","6","e","4">>,   \* CPU 2 (Nxe4)
            <<"e","1","g","1">>,   \* YOU 3 (castle)
            <<"e","4","c","3">>,   \* CPU 3 (Nxc3)
            <<"b","2","c","3">>,   \* YOU 4 (bxc3)
            <<"b","4","a","5">>,   \* CPU 4 (Ba5)
            <<"f","1","e","1">> >> \* YOU 5 (Re1)
     ] >>

\* You make exactly 5 moves.
REQUIRED_PLAYER_MOVES == 5

(***************************************************************************)
(* The rules adapter (chess.js): squares, pieces, positions.               *)
(* A board is the sequence of its 64 squares from a8 to h1, each the FEN   *)
(* letter of the piece on it or Empty.                                     *)
(***************************************************************************)
Files == <<"a","b","c","d","e","f","g","h">>
RankChars == <<"1","2","3","4","5","6","7","8">>
DigitChars == <<"0","1","2","3","4","5","6","7","8","9">>

SqAt(f, r) == <<Files[f], RankChars[r]>>
Squares == {SqAt(f, r) : f \in 1..8, r \in 1..8}
FileOf(sq) == CHOOSE f \in 1..8 : Files[f] = sq[1]
RankOf(sq) == CHOOSE r \in 1..8 : RankChars[r] = sq[2]
\* The place of square (file f, rank r) in a board.
Idx(f, r) == (8 - r) * 8 + f
At(board, f, r) == board[Idx(f, r)]

Empty == "."
ColorOf(ch) ==
  IF ch \in {"P","N","B","R","Q","K"} THEN "w"
  ELSE IF ch \in {"p","n","b","r","q","k"} THEN "b" ELSE "-"
TypeOf(ch) == LowerChar(ch)
UpperChar(c) ==
  IF \E i \in DOMAIN LowerLetters : LowerLetters[i] = c
  THEN UpperLetters[CHOOSE i \in DOMAIN LowerLetters : LowerLetters[i] = c]
  ELSE c
PieceChar(type, color) == IF color = "w" THEN UpperChar(type) ELSE type
Other(c) == IF c = "w" THEN "b" ELSE "w"

\* What Chess.get answers: a piece {type, color}, or nothing.
NoPiece == [type |-> "-", color |-> "-"]
PieceOf(ch) == IF ch = Empty THEN NoPiece ELSE [type |-> TypeOf(ch), color |-> ColorOf(ch)]

DigitVal(c) == (CHOOSE i \in DOMAIN DigitChars : DigitChars[i] = c) - 1

(***************************************************************************)
(* The rules adapter: the board encoding (FEN), read and written.          *)
(***************************************************************************)
RECURSIVE Fields(_, _)
\* String.prototype.split(" "), with cur the field being read.
Fields(s, cur) ==
  IF s = <<>> THEN <<cur>>
  ELSE IF Head(s) = " " THEN <<cur>> \o Fields(Tail(s), <<>>)
  ELSE Fields(Tail(s), Append(cur, Head(s)))

RECURSIVE ParsePlacement(_)
ParsePlacement(s) ==
  IF s = <<>> THEN <<>>
  ELSE IF Head(s) = "/" THEN ParsePlacement(Tail(s))
  ELSE IF \E i \in DOMAIN DigitChars : DigitChars[i] = Head(s)
       THEN [i \in 1..DigitVal(Head(s)) |-> Empty] \o ParsePlacement(Tail(s))
       ELSE <<Head(s)>> \o ParsePlacement(Tail(s))

RECURSIVE ParseNum(_, _)
ParseNum(s, acc) ==
  IF s = <<>> THEN acc ELSE ParseNum(Tail(s), acc * 10 + DigitVal(Head(s)))

RECURSIVE NumChars(_)
NumChars(n) ==
  IF n < 10 THEN <<DigitChars[n + 1]>>
  ELSE NumChars(n \div 10) \o <<DigitChars[(n % 10) + 1]>>

\* The position the fields of a board encoding hold.
PositionOf(fs) ==
  [ board    |-> ParsePlacement(fs[1]),
    turn     |-> fs[2][1],
    castling |-> {fs[3][i] : i \in DOMAIN fs[3]} \ {"-"},
    ep       |-> fs[4],
    half     |-> ParseNum(fs[5], 0),
    full     |-> ParseNum(fs[6], 0) ]
\* A position: what a board encoding holds.
ParseFenRule(fen) == PositionOf(Fields(fen, <<>>))

RECURSIVE FenRank(_, _, _, _)
FenRank(board, r, f, empties) ==
  IF f > 8 THEN (IF empties > 0 THEN <<DigitChars[empties + 1]>> ELSE <<>>)
  ELSE IF At(board, f, r) = Empty THEN FenRank(board, r, f + 1, empties + 1)
  ELSE (IF empties > 0 THEN <<DigitChars[empties + 1]>> ELSE <<>>)
         \o <<At(board, f, r)>> \o FenRank(board, r, f + 1, 0)

RECURSIVE FenPlacement(_, _)
FenPlacement(board, r) ==
  IF r = 1 THEN FenRank(board, 1, 1, 0)
  ELSE FenRank(board, r, 1, 0) \o <<"/">> \o FenPlacement(board, r - 1)

CastlingOrder == <<"K","Q","k","q">>
FenCastling(rights) ==
  IF rights = {} THEN <<"-">> ELSE SelectSeq(CastlingOrder, LAMBDA c : c \in rights)

\* Chess.fen() of a position.
FenOfRule(pos) ==
  FenPlacement(pos.board, 8) \o <<" ">> \o <<pos.turn>> \o <<" ">>
    \o FenCastling(pos.castling) \o <<" ">> \o pos.ep \o <<" ">>
    \o NumChars(pos.half) \o <<" ">> \o NumChars(pos.full)

(***************************************************************************)
(* The rules adapter: legality and move application, on files and ranks.   *)
(***************************************************************************)
PathClear(board, f1, r1, f2, r2) ==
  \A k \in 1..(Max(Abs(f2 - f1), Abs(r2 - r1)) - 1) :
    At(board, f1 + k * Sgn(f2 - f1), r1 + k * Sgn(r2 - r1)) = Empty

\* A piece of the given type and color on (f1, r1) attacks (f2, r2).
AttacksAs(board, type, color, f1, r1, f2, r2) ==
  /\ <<f1, r1>> # <<f2, r2>>
  /\ CASE type = "p" -> Abs(f2 - f1) = 1 /\ r2 - r1 = (IF color = "w" THEN 1 ELSE -1)
       [] type = "n" -> {Abs(f2 - f1), Abs(r2 - r1)} = {1, 2}
       [] type = "k" -> Abs(f2 - f1) <= 1 /\ Abs(r2 - r1) <= 1
       [] type = "b" -> Abs(f2 - f1) = Abs(r2 - r1) /\ PathClear(board, f1, r1, f2, r2)
       [] type = "r" -> (f1 = f2 \/ r1 = r2) /\ PathClear(board, f1, r1, f2, r2)
       [] type = "q" -> /\ (Abs(f2 - f1) = Abs(r2 - r1) \/ f1 = f2 \/ r1 = r2)
                        /\ PathClear(board, f1, r1, f2, r2)
       [] OTHER -> FALSE

\* The piece on (f1, r1) attacks (f2, r2).
Attacks(board, f1, r1, f2, r2) ==
  AttacksAs(board, TypeOf(At(board, f1, r1)), ColorOf(At(board, f1, r1)),
            f1, r1, f2, r2)

Attacked(board, f, r, byColor) ==
  \E f1 \in 1..8, r1 \in 1..8 :
    ColorOf(At(board, f1, r1)) = byColor /\ Attacks(board, f1, r1, f, r)

KingIdx(board, color) == CHOOSE i \in 1..64 : board[i] = PieceChar("k", color)
InCheck(board, color) ==
  \E i \in {KingIdx(board, color)} :
    Attacked(board, ((i - 1) % 8) + 1, 8 - ((i - 1) \div 8), Other(color))

HomeRank(color) == IF color = "w" THEN 1 ELSE 8
KingSideRight(color) == IF color = "w" THEN "K" ELSE "k"
QueenSideRight(color) == IF color = "w" THEN "Q" ELSE "q"

\* The king's move (f1, r1) -> (f2, r2) is a castling move the position allows;
\* c is the side to move and h its home rank.
CastleAs(pos, c, h, f1, r1, f2, r2) ==
  /\ f1 = 5 /\ r1 = h /\ r2 = h
  /\ At(pos.board, 5, h) = PieceChar("k", c)
  /\ ~InCheck(pos.board, c)
  /\ \/ /\ f2 = 7
        /\ KingSideRight(c) \in pos.castling
        /\ At(pos.board, 8, h) = PieceChar("r", c)
        /\ At(pos.board, 6, h) = Empty /\ At(pos.board, 7, h) = Empty
        /\ ~Attacked(pos.board, 6, h, Other(c))
        /\ ~Attacked(pos.board, 7, h, Other(c))
     \/ /\ f2 = 3
        /\ QueenSideRight(c) \in pos.castling
        /\ At(pos.board, 1, h) = PieceChar("r", c)
        /\ At(pos.board, 2, h) = Empty /\ At(pos.board, 3, h) = Empty
        /\ At(pos.board, 4, h) = Empty
        /\ ~Attacked(pos.board, 4, h, Other(c))
        /\ ~Attacked(pos.board, 3, h, Other(c))
CastleOK(pos, f1, r1, f2, r2) ==
  CastleAs(pos, pos.turn, HomeRank(pos.turn), f1, r1, f2, r2)

\* A pawn of color c, which moves in direction dir, may go (f1, r1) -> (f2, r2).
PawnMoveAs(pos, c, dir, f1, r1, f2, r2) ==
  \/ f2 = f1 /\ r2 - r1 = dir /\ At(pos.board, f2, r2) = Empty
  \/ /\ f2 = f1 /\ r2 - r1 = 2 * dir
     /\ r1 = (IF c = "w" THEN 2 ELSE 7)
     /\ At(pos.board, f2, r2) = Empty
     /\ At(pos.board, f1, r1 + dir) = Empty
  \/ /\ Abs(f2 - f1) = 1 /\ r2 - r1 = dir
     /\ (ColorOf(At(pos.board, f2, r2)) = Other(c) \/ SqAt(f2, r2) = pos.ep)
PawnMoveOK(pos, f1, r1, f2, r2) ==
  PawnMoveAs(pos, pos.turn, IF pos.turn = "w" THEN 1 ELSE -1, f1, r1, f2, r2)

\* The piece ch of the side to move may go (f1, r1) -> (f2, r2), check aside.
PseudoLegalAs(pos, ch, f1, r1, f2, r2) ==
  /\ ColorOf(ch) = pos.turn
  /\ ColorOf(At(pos.board, f2, r2)) # pos.turn
  /\ CASE TypeOf(ch) = "p" -> PawnMoveOK(pos, f1, r1, f2, r2)
       [] TypeOf(ch) = "k" -> \/ Attacks(pos.board, f1, r1, f2, r2)
                              \/ CastleOK(pos, f1, r1, f2, r2)
       [] OTHER            -> Attacks(pos.board, f1, r1, f2, r2)
PseudoLegal(pos, f1, r1, f2, r2) ==
  PseudoLegalAs(pos, At(pos.board, f1, r1), f1, r1, f2, r2)

\* The board after piece ch of color c went (f1, r1) -> (f2, r2).
BoardAfter(pos, ch, c, f1, r1, f2, r2, promotion) ==
  [i \in 1..64 |->
     IF i = Idx(f2, r2)
     THEN (IF TypeOf(ch) = "p" /\ r2 = HomeRank(Other(c))
           THEN PieceChar(promotion, c) ELSE ch)
     ELSE IF i = Idx(f1, r1) THEN Empty
     \* en passant: the pawn passed is taken
     ELSE IF TypeOf(ch) = "p" /\ f2 # f1 /\ SqAt(f2, r2) = pos.ep /\ i = Idx(f2, r1)
          THEN Empty
     \* castling: the rook jumps over the king
     ELSE IF TypeOf(ch) = "k" /\ f2 - f1 = 2 /\ i = Idx(8, r1) THEN Empty
     ELSE IF TypeOf(ch) = "k" /\ f2 - f1 = 2 /\ i = Idx(6, r1) THEN PieceChar("r", c)
     ELSE IF TypeOf(ch) = "k" /\ f1 - f2 = 2 /\ i = Idx(1, r1) THEN Empty
     ELSE IF TypeOf(ch) = "k" /\ f1 - f2 = 2 /\ i = Idx(4, r1) THEN PieceChar("r", c)
     ELSE pos.board[i]]

\* The castling rights a move of piece ch of color c loses.
RightsLost(ch, c, f1, r1, f2, r2) ==
  (IF TypeOf(ch) = "k" THEN {KingSideRight(c), QueenSideRight(c)} ELSE {})
    \cup (IF <<8, 1>> \in {<<f1, r1>>, <<f2, r2>>} THEN {"K"} ELSE {})
    \cup (IF <<1, 1>> \in {<<f1, r1>>, <<f2, r2>>} THEN {"Q"} ELSE {})
    \cup (IF <<8, 8>> \in {<<f1, r1>>, <<f2, r2>>} THEN {"k"} ELSE {})
    \cup (IF <<1, 8>> \in {<<f1, r1>>, <<f2, r2>>} THEN {"q"} ELSE {})

\* The position after piece ch of color c went (f1, r1) -> (f2, r2).
PositionAfter(pos, ch, c, f1, r1, f2, r2, promotion) ==
  [ board    |-> BoardAfter(pos, ch, c, f1, r1, f2, r2, promotion),
    turn     |-> Other(c),
    castling |-> pos.castling \ RightsLost(ch, c, f1, r1, f2, r2),
    ep       |-> IF TypeOf(ch) = "p" /\ Abs(r2 - r1) = 2
                 THEN SqAt(f1, (r1 + r2) \div 2) ELSE <<"-">>,
    half     |-> IF \/ TypeOf(ch) = "p"
                    \/ At(pos.board, f2, r2) # Empty
                 THEN 0 ELSE pos.half + 1,
    full     |-> IF c = "b" THEN pos.full + 1 ELSE pos.full ]

MakeMoveCoords(pos, f1, r1, f2, r2, promotion) ==
  PositionAfter(pos, At(pos.board, f1, r1), pos.turn, f1, r1, f2, r2, promotion)

\* The position after from -> to (promotion is the piece a pawn becomes on
\* the last rank).
MakeMoveRule(pos, from, to, promotion) ==
  MakeMoveCoords(pos, FileOf(from), RankOf(from), FileOf(to), RankOf(to), promotion)

LegalCoords(pos, f1, r1, f2, r2) ==
  /\ PseudoLegal(pos, f1, r1, f2, r2)
  /\ \A after \in {MakeMoveCoords(pos, f1, r1, f2, r2, "q")} :
        ~InCheck(after.board, pos.turn)

\* from and to name squares, and the move is legal in pos.
LegalMoveRule(pos, from, to) ==
  /\ from \in Squares /\ to \in Squares
  /\ LegalCoords(pos, FileOf(from), RankOf(from), FileOf(to), RankOf(to))

(***************************************************************************)
(* The rules adapter, tabulated once for the positions on the solution     *)
(* lines of the catalog; any other position is computed by the rules.      *)
(***************************************************************************)
RECURSIVE LineFrom(_, _, _)
\* The positions of a solution line from its k-th half-move on.
LineFrom(solution, pos, k) ==
  IF k > Len(solution) THEN <<pos>>
  ELSE <<pos>> \o LineFrom(solution,
                           MakeMoveRule(pos, SubSeq(solution[k], 1, 2),
                                        SubSeq(solution[k], 3, 4), "q"),
                           k + 1)
RECURSIVE LinesFrom(_)
\* The positions of the solution lines of the puzzles from the i-th on.
LinesFrom(i) ==
  IF i > Len(PUZZLES) THEN <<>>
  ELSE LineFrom(PUZZLES[i].solution, ParseFenRule(PUZZLES[i].fen), 1)
         \o LinesFrom(i + 1)
LineSeq == LinesFrom(1)
LinePositions == {LineSeq[k] : k \in DOMAIN LineSeq}

\* The legal moves of a position.
LegalMovesRule(pos) ==
  UNION { IF LegalMoveRule(pos, m[1], m[2]) THEN {m} ELSE {} :
            m \in Squares \X Squares }
RECURSIVE MovesFrom(_, _)
\* The position after each of the given moves.
MovesFrom(pos, moves) ==
  IF moves = {} THEN <<>>
  ELSE LET m == CHOOSE x \in moves : TRUE
       IN  (m :> MakeMoveRule(pos, m[1], m[2], "q")) @@ MovesFrom(pos, moves \ {m})
RECURSIVE TableFrom(_)
\* What the adapter answers about the positions of LineSeq from the k-th on.
TableFrom(k) ==
  IF k > Len(LineSeq) THEN <<>>
  ELSE (LineSeq[k] :> [ legal |-> LegalMovesRule(LineSeq[k]),
                        after |-> MovesFrom(LineSeq[k], LegalMovesRule(LineSeq[k])),
                        fen   |-> FenOfRule(LineSeq[k]) ])
         @@ TableFrom(k + 1)
LineTable == TableFrom(1)
LineFens == {LineTable[pos].fen : pos \in LinePositions}
RECURSIVE ParseFrom(_)
ParseFrom(k) ==
  IF k > Len(LineSeq) THEN <<>>
  ELSE (LineTable[LineSeq[k]].fen :> ParseFenRule(LineTable[LineSeq[k]].fen))
         @@ ParseFrom(k + 1)
ParseTable == ParseFrom(1)

LegalMove(pos, from, to) ==
  IF pos \in LinePositions THEN <<from, to>> \in LineTable[pos].legal
  ELSE LegalMoveRule(pos, from, to)
MakeMove(pos, from, to, promotion) ==
  IF pos \in LinePositions /\ promotion = "q" /\ <<from, to>> \in LineTable[pos].legal
  THEN LineTable[pos].after[<<from, to>>]
  ELSE MakeMoveRule(pos, from, to, promotion)
FenOf(pos) == IF pos \in LinePositions THEN LineTable[pos].fen ELSE FenOfRule(pos)
ParseFen(fen) == IF fen \in LineFens THEN ParseTable[fen] ELSE ParseFenRule(fen)

(***************************************************************************)
(* The rules adapter: the Chess object, a position and its undo history.   *)
(***************************************************************************)
\* new Chess(fen)
NewChess(fen) == [pos |-> ParseFen(fen), history |-> <<>>]
\* Chess.fen()
Fen(g) == FenOf(g.pos)
\* Chess.get(square)
Get(g, sq) == PieceOf(At(g.pos.board, FileOf(sq), RankOf(sq)))
\* Chess.turn()
Turn(g) == g.pos.turn
\* Chess.move({from, to, promotion}): the move made (null when illegal) and
\* the object afterwards.
Move(g, from, to, promotion) ==
  IF LegalMove(g.pos, from, to)
  THEN [ made |-> TRUE, from |-> from, to |-> to,
         game |-> [ pos     |-> MakeMove(g.pos, from, to, promotion),
                    history |-> Append(g.history, g.pos) ] ]
  ELSE [ made |-> FALSE, from |-> from, to |-> to, game |-> g ]
\* Chess.undo()
Undo(g) ==
  IF g.history = <<>> THEN g
  ELSE [ pos     |-> g.history[Len(g.history)],
         history |-> SubSeq(g.history, 1, Len(g.history) - 1) ]


(***************************************************************************)
(* App: pure helpers.                                                      *)
(***************************************************************************)
\* "abcdefgh"[c] + String(8 - r), for a square of the board.
sqName(r, c) == <<Files[c + 1]>> \o NumChars(8 - r)

\* { r: 8 - Number(sq[1]), c: files.indexOf(sq[0]) }
coordsFromSq(sq) ==
  [ r |-> 8 - ParseNum(<<sq[2]>>, 0),
    c |-> (CHOOSE i \in DOMAIN Files : Files[i] = sq[1]) - 1 ]

\* undefined, where a string is expected.
Undefined == "undefined"

parseUci(uci) ==
  [ from      |-> Slice(uci, 0, 2),
    to        |-> Slice(uci, 2, 4),
    promotion |-> IF Len(uci) >= 5 THEN uci[5] ELSE Undefined ]

\* String.prototype.trim over the characters the name inputs use.
IsSpace(ch) == ch = " "
RECURSIVE TrimStart(_)
TrimStart(s) == IF s # <<>> /\ IsSpace(Head(s)) THEN TrimStart(Tail(s)) ELSE s
RECURSIVE TrimEnd(_)
TrimEnd(s) ==
  IF s # <<>> /\ IsSpace(s[Len(s)]) THEN TrimEnd(SubSeq(s, 1, Len(s) - 1)) ELSE s
Trim(s) == TrimEnd(TrimStart(s))

\* The longest player name a row holds.
NameLimit == 24
clampName(s) == Slice(Trim(s), 0, NameLimit)

\* The period of the timer tick, in ms.
TickPeriod == 200

(***************************************************************************)
(* Inputs the model draws from.                                            *)
(***************************************************************************)
\* The squares of the board the user clicks.
ClickNames ==
  { <<"c","3">>, <<"d","4">>, <<"b","1">>, <<"e","1">>, <<"g","1">>, <<"b","2">>,
    <<"f","1">>, <<"e","8">>, <<"f","8">> }
ClickSquares == {coordsFromSq(sq) : sq \in ClickNames}

\* What the user types into the name field, which starts empty.
NameInputs == { <<" ">>, <<" ","K","d"," ">> }

\* The week key of the session.
WeekKeyInputs == { <<"2","0","2","6","-","1","1","-","0","2">> }

(***************************************************************************)
(* App: the state.                                                         *)
(***************************************************************************)
VARIABLES
  weekKey,          \* useMemo(() => getWeekKey(new Date()), [])
  puzzleAt,         \* useMemo(() => pickWeeklyPuzzle(weekKey), [weekKey]): the
                    \* place in PUZZLES of the puzzle picked
  game,             \* the Chess object
  selected,         \* {r, c} or null
  playerMoveIndex,  \* 0..4, and 5 once solved
  mistakes,
  done,
  name,
  store,            \* the rows inserted into the remote leaderboard table
  startRef,         \* startRef.current; 0 is null
  timeMs,
  hintStage,
  now,              \* Date.now()
  nextTick,         \* when the interval of the timer effect fires next
  lastEvent,        \* history: the kind of event handled last, and the hint stage
                    \* before it
  replay,           \* history: solution moves replayed since the restart, with
                    \* nothing else attempted; -1 once anything else was attempted
  completedAt,      \* history: Date.now() when done was set; 0 before
  tally,            \* history: the expected and the legal-but-wrong moves
                    \* attempted since the restart, before completion
  bgTheme,
  boardTheme,
  leaderboard,      \* the rows displayed
  requests,         \* the requests to the leaderboard table still in flight
  arg,              \* the input of a helper function applied on its own
  out               \* and what the function returned

\* The state of the page.
appVars == <<weekKey, puzzleAt, game, selected, playerMoveIndex, mistakes, done, name,
             store, startRef, timeMs, hintStage, now, nextTick, lastEvent, replay,
             completedAt, tally, bgTheme, boardTheme, leaderboard, requests>>
vars == <<weekKey, puzzleAt, game, selected, playerMoveIndex, mistakes, done, name, store,
          startRef, timeMs, hintStage, now, nextTick, lastEvent, replay,
          completedAt, tally, bgTheme, boardTheme, leaderboard, requests, arg, out>>

\* selected === null
NoSelection == [r |-> -1, c |-> -1]

\* pickWeeklyPuzzle(weekKey).  The unsigned 32-bit hash is a pair of 16-bit
\* halves <<high, low>>, so that no intermediate value leaves 32 bits.
\* The step losing what the low half carries into the high half.
HashStepNoCarry(hash, code) ==
  <<(hash[1] * 31) % 65536, (hash[2] * 31 + code) % 65536>>
\* (hash * 31 + code) >>> 0
HashStep(hash, code) ==
  LET low  == hash[2] * 31 + code
      high == hash[1] * 31 + (low \div 65536)
  IN  <<high % 65536, low % 65536>>
\* String.prototype.charCodeAt, for the characters of a week key.
CharCodes == [ch \in {"0","1","2","3","4","5","6","7","8","9","-"} |->
                CASE ch = "-" -> 45
                  [] OTHER -> 48 + DigitVal(ch)]
RECURSIVE HashFrom(_, _)
HashFrom(s, hash) ==
  IF s = <<>> THEN hash ELSE HashFrom(Tail(s), HashStep(hash, CharCodes[Head(s)]))
\* hash % n
HashMod(hash, n) == ((hash[1] % n) * (65536 % n) + (hash[2] % n)) % n
\* hash % PUZZLES.length, for a catalog of n entries
pickIndex(wk, n) == HashMod(HashFrom(wk, <<0, 0>>), n)
\* The place in PUZZLES (from 1) of PUZZLES[hash % PUZZLES.length].
pickWeeklyPuzzle(wk) == pickIndex(wk, Len(PUZZLES)) + 1

puzzle == PUZZLES[puzzleAt]

\* puzzle.solution[idx], undefined (here the empty string) outside the array.
SolutionAt(idx) ==
  IF idx + 1 \in DOMAIN puzzle.solution THEN puzzle.solution[idx + 1] ELSE <<>>

\* Next expected player move = solution[playerMoveIndex*2] || ""
nextPlayerUci == SolutionAt(playerMoveIndex * 2)

\* Hint squares for the next player move; null is NoHint.
NoHint == [from |-> <<>>, to |-> <<>>]
hintSquares ==
  IF done THEN NoHint
  ELSE IF nextPlayerUci = <<>> \/ Len(nextPlayerUci) < 4 THEN NoHint
  ELSE [from |-> parseUci(nextPlayerUci).from, to |-> parseUci(nextPlayerUci).to]

Event(kind) == [kind |-> kind, hint |-> hintStage]

\* What the puzzle makes of a move attempt from -> to in the current state:
\* "ignored" once the session is complete, "illegal" for a move the rules
\* adapter rejects, "correct" for the expected half-move, "wrong" otherwise.
AttemptKind(from, to) ==
  IF done THEN "ignored"
  ELSE IF ~LegalMove(game.pos, from, to) THEN "illegal"
  ELSE IF from \o to = SolutionAt(playerMoveIndex * 2) THEN "correct"
  ELSE "wrong"

\* No expected and no wrong move attempted yet.
NoMoves == [correct |-> 0, wrong |-> 0]
\* A request of loadLeaderboard in flight; seen is the number of rows
\* the table held when it was sent.
SelectRequest(seen) == [kind |-> "select", seen |-> seen]
\* A request of submitScore in flight.
InsertRequest(seen) == [kind |-> "insert", seen |-> seen]
\* The helper variables outside the specifications that apply a helper.
NoValue == <<"none">>

\* The state after the page is mounted, with the name localStorage held and
\* the rows the remote table holds.
Mounted(savedName, heldRows) ==
  /\ weekKey \in WeekKeyInputs
  /\ puzzleAt = pickWeeklyPuzzle(weekKey)
  /\ game = NewChess(puzzle.fen)
  /\ selected = NoSelection
  /\ playerMoveIndex = 0
  /\ mistakes = 0
  /\ done = FALSE
  /\ name = savedName
  /\ store = heldRows
  /\ startRef = 0
  /\ timeMs = 0
  /\ hintStage = 0
  /\ now = NowInit
  /\ nextTick = NowInit + TickPeriod
  /\ lastEvent = [kind |-> "other", hint |-> 0]
  /\ replay = 0
  /\ completedAt = 0
  /\ tally = NoMoves
  /\ bgTheme = "bg-neo"
  /\ boardTheme = "board-classic"
  /\ leaderboard = <<>>
  /\ requests = <<SelectRequest(Len(heldRows))>>

InitWith(savedName, heldRows) ==
  /\ Mounted(savedName, heldRows)
  /\ arg = NoValue
  /\ out = NoValue

\* The first visit: localStorage holds no name, the table no row.
Init == InitWith(<<>>, <<>>)


(***************************************************************************)
(* App: the operations.                                                    *)
(***************************************************************************)
\* startTimerIfNeeded without its test: startRef.current = Date.now()
RestartTimer(ref, t) == t

\* if (!startRef.current) startRef.current = Date.now()
startTimerIfNeeded(ref, t) == IF ref = 0 THEN t ELSE ref

\* applyOpponentMoveIfExists returning at once: no reply is played.
NoOpponentMove(nextPlayerIdx, g) == g

\* Opponent reply after player move #n is index (n*2 - 1).
applyOpponentMoveIfExists(nextPlayerIdx, g) ==
  LET uci == SolutionAt(nextPlayerIdx * 2 - 1)
      m   == parseUci(uci)
  IN  IF uci = <<>> THEN g
      ELSE Move(g, m.from, m.to,
                IF m.promotion = Undefined THEN "q" ELSE m.promotion).game

\* What tryPlayerMove leaves when it returns without having changed anything.
Untouched(branch) ==
  [ branch |-> branch, game |-> game, playerMoveIndex |-> playerMoveIndex,
    mistakes |-> mistakes, done |-> done, hintStage |-> hintStage,
    startRef |-> startRef ]

\* The wrong-move branch without game.undo(): the move stays on the board.
WrongMoveKept(moved) ==
  [ branch |-> "wrong",
    game |-> NewChess(Fen(moved)),
    playerMoveIndex |-> playerMoveIndex,
    mistakes |-> mistakes + 1,
    done |-> done,
    hintStage |-> 0,
    startRef |-> startTimerIfNeeded(startRef, now) ]

\* The wrong-move branch without setHintStage(0).
WrongMoveKeepsHint(moved) ==
  [ branch |-> "wrong",
    game |-> NewChess(Fen(Undo(moved))),
    playerMoveIndex |-> playerMoveIndex,
    mistakes |-> mistakes + 1,
    done |-> done,
    hintStage |-> hintStage,
    startRef |-> startTimerIfNeeded(startRef, now) ]

\* The branch of tryPlayerMove for a legal move that is not the expected one;
\* moved is the Chess object with the move made.
WrongMove(moved) ==
  [ branch |-> "wrong",
    game |-> NewChess(Fen(Undo(moved))),
    playerMoveIndex |-> playerMoveIndex,
    mistakes |-> mistakes + 1,
    done |-> done,
    hintStage |-> 0,
    startRef |-> startTimerIfNeeded(startRef, now) ]

\* The expected-move branch completing one move early.
CorrectMoveDoneEarly(moved) ==
  LET nextIdx == playerMoveIndex + 1 IN
  [ branch |-> "correct",
    game |-> applyOpponentMoveIfExists(nextIdx, NewChess(Fen(moved))),
    playerMoveIndex |-> nextIdx,
    mistakes |-> mistakes,
    done |-> IF nextIdx >= REQUIRED_PLAYER_MOVES - 1 THEN TRUE ELSE done,
    hintStage |-> 0,
    startRef |-> startTimerIfNeeded(startRef, now) ]

\* The expected-move branch without setDone(true).
CorrectMoveNeverDone(moved) ==
  [ branch |-> "correct",
    game |-> applyOpponentMoveIfExists(playerMoveIndex + 1, NewChess(Fen(moved))),
    playerMoveIndex |-> playerMoveIndex + 1,
    mistakes |-> mistakes,
    done |-> done,
    hintStage |-> 0,
    startRef |-> startTimerIfNeeded(startRef, now) ]

\* The branch of tryPlayerMove for the expected move.
CorrectMove(moved) ==
  LET nextIdx == playerMoveIndex + 1 IN
  [ branch |-> "correct",
    game |-> applyOpponentMoveIfExists(nextIdx, NewChess(Fen(moved))),
    playerMoveIndex |-> nextIdx,
    mistakes |-> mistakes,
    done |-> IF nextIdx >= REQUIRED_PLAYER_MOVES THEN TRUE ELSE done,
    hintStage |-> 0,
    startRef |-> startTimerIfNeeded(startRef, now) ]

\* tryPlayerMove without "if (done) return".
AfterAttemptWhenDone(attempted) ==
  IF ~attempted.made THEN Untouched("illegal")
  ELSE IF toLowerCase(attempted.from \o attempted.to) # toLowerCase(nextPlayerUci)
       THEN WrongMove(attempted.game)
       ELSE CorrectMove(attempted.game)

\* tryPlayerMove without "if (!attempted) return".
AfterAttemptUnchecked(attempted) ==
  IF done THEN Untouched("done")
  ELSE IF toLowerCase(attempted.from \o attempted.to) # toLowerCase(nextPlayerUci)
       THEN WrongMove(attempted.game)
       ELSE CorrectMove(attempted.game)

\* tryPlayerMove after game.move(...) has answered attempted.
AfterAttempt(attempted) ==
  IF done THEN Untouched("done")
  ELSE IF ~attempted.made THEN Untouched("illegal")
  ELSE IF toLowerCase(attempted.from \o attempted.to) # toLowerCase(nextPlayerUci)
       THEN WrongMove(attempted.game)
       ELSE CorrectMove(attempted.game)

\* tryPlayerMove(from, to): the state it leaves.
tryPlayerMove(from, to) == AfterAttempt(Move(game, from, to, "q"))

\* The timer effect runs again, and sets a new interval, when done changes.
TimerEffect(doneAfter) ==
  nextTick' = IF doneAfter # done THEN now + TickPeriod ELSE nextTick

\* A click on square sq with nothing selected, on a piece of the side to move.
ClickSelect(sq) ==
  /\ selected = NoSelection
  /\ Get(game, sqName(sq.r, sq.c)) # NoPiece
  /\ Get(game, sqName(sq.r, sq.c)).color = Turn(game)
  /\ selected' = sq
  /\ lastEvent' = Event("other")
  /\ UNCHANGED <<weekKey, puzzleAt, game, playerMoveIndex, mistakes, done, name, store,
                 startRef, timeMs, hintStage, now, nextTick, replay, completedAt>>
  /\ UNCHANGED <<tally, bgTheme, boardTheme, leaderboard, requests, arg, out>>

\* The tally after a move attempt of the given kind.
Tallied(kind) ==
  IF kind = "correct" THEN [tally EXCEPT !.correct = @ + 1]
  ELSE IF kind = "wrong" THEN [tally EXCEPT !.wrong = @ + 1]
  ELSE tally

\* The click that attempts a move and leaves the square selected.
ClickMoveKeepsSelection(sq) ==
  /\ selected # NoSelection
  /\ \E from \in {sqName(selected.r, selected.c)}, to \in {sqName(sq.r, sq.c)} :
       \E res \in {tryPlayerMove(from, to)} :
         /\ res.mistakes <= MaxMistakes
         /\ game' = res.game
         /\ playerMoveIndex' = res.playerMoveIndex
         /\ mistakes' = res.mistakes
         /\ done' = res.done
         /\ hintStage' = res.hintStage
         /\ startRef' = res.startRef
         /\ TimerEffect(res.done)
         /\ lastEvent' = Event(AttemptKind(from, to))
         /\ replay' = IF /\ replay >= 0
                         /\ replay < REQUIRED_PLAYER_MOVES
                         /\ from \o to = SolutionAt(2 * replay)
                      THEN replay + 1 ELSE -1
         /\ completedAt' = IF res.done /\ ~done THEN now ELSE completedAt
         /\ tally' = Tallied(AttemptKind(from, to))
  /\ selected' = selected
  /\ UNCHANGED <<weekKey, puzzleAt, name, store, timeMs, now>>
  /\ UNCHANGED <<bgTheme, boardTheme, leaderboard, requests, arg, out>>

\* A click on square sq with a square selected: one move attempt.
ClickMove(sq) ==
  /\ selected # NoSelection
  /\ \E from \in {sqName(selected.r, selected.c)}, to \in {sqName(sq.r, sq.c)} :
       \E res \in {tryPlayerMove(from, to)} :
         /\ res.mistakes <= MaxMistakes
         /\ game' = res.game
         /\ playerMoveIndex' = res.playerMoveIndex
         /\ mistakes' = res.mistakes
         /\ done' = res.done
         /\ hintStage' = res.hintStage
         /\ startRef' = res.startRef
         /\ TimerEffect(res.done)
         /\ lastEvent' = Event(AttemptKind(from, to))
         /\ replay' = IF /\ replay >= 0
                         /\ replay < REQUIRED_PLAYER_MOVES
                         /\ from \o to = SolutionAt(2 * replay)
                      THEN replay + 1 ELSE -1
         /\ completedAt' = IF res.done /\ ~done THEN now ELSE completedAt
         /\ tally' = Tallied(AttemptKind(from, to))
  /\ selected' = NoSelection
  /\ UNCHANGED <<weekKey, puzzleAt, name, store, timeMs, now>>
  /\ UNCHANGED <<bgTheme, boardTheme, leaderboard, requests, arg, out>>

\* A click that neither selects nor moves.
ClickNothing(sq) ==
  /\ selected = NoSelection
  /\ ~ ( /\ Get(game, sqName(sq.r, sq.c)) # NoPiece
         /\ Get(game, sqName(sq.r, sq.c)).color = Turn(game) )
  /\ lastEvent' = Event("other")
  /\ UNCHANGED <<weekKey, puzzleAt, game, selected, playerMoveIndex, mistakes, done, name,
                 store, startRef, timeMs, hintStage, now, nextTick, replay,
                 completedAt>>
  /\ UNCHANGED <<tally, bgTheme, boardTheme, leaderboard, requests, arg, out>>

\* A hint stage that goes up and stays at 2.
HintStageUp(s) == IF s = 0 THEN 1 ELSE 2

\* setHintStage(s => (s === 0 ? 1 : s === 1 ? 2 : 0))
NextHintStage(s) == IF s = 0 THEN 1 ELSE IF s = 1 THEN 2 ELSE 0

\* The hint button without its disabled attribute.
HintNeverDisabled == FALSE

\* disabled={done || !hintSquares}
HintDisabled == done \/ hintSquares = NoHint

\* A click on the hint button.
HintClick ==
  /\ ~HintDisabled
  /\ hintStage' = NextHintStage(hintStage)
  /\ lastEvent' = Event("hint")
  /\ UNCHANGED <<weekKey, puzzleAt, game, selected, playerMoveIndex, mistakes, done, name,
                 store, startRef, timeMs, now, nextTick, replay, completedAt>>
  /\ UNCHANGED <<tally, bgTheme, boardTheme, leaderboard, requests, arg, out>>

\* restartPuzzle without startRef.current = null and setTimeMs(0).
restartKeepsTimer ==
  /\ game' = NewChess(puzzle.fen)
  /\ selected' = NoSelection
  /\ playerMoveIndex' = 0
  /\ mistakes' = 0
  /\ done' = FALSE
  /\ hintStage' = 0
  /\ startRef' = startRef
  /\ timeMs' = timeMs
  /\ TimerEffect(FALSE)
  /\ lastEvent' = Event("restart")
  /\ replay' = 0
  /\ completedAt' = 0
  /\ UNCHANGED <<weekKey, puzzleAt, name, store, now>>
  /\ tally' = NoMoves
  /\ UNCHANGED <<bgTheme, boardTheme, leaderboard, requests, arg, out>>

restartPuzzle ==
  /\ game' = NewChess(puzzle.fen)
  /\ selected' = NoSelection
  /\ playerMoveIndex' = 0
  /\ mistakes' = 0
  /\ done' = FALSE
  /\ hintStage' = 0
  /\ startRef' = 0
  /\ timeMs' = 0
  /\ TimerEffect(FALSE)
  /\ lastEvent' = Event("restart")
  /\ replay' = 0
  /\ completedAt' = 0
  /\ UNCHANGED <<weekKey, puzzleAt, name, store, now>>
  /\ tally' = NoMoves
  /\ UNCHANGED <<bgTheme, boardTheme, leaderboard, requests, arg, out>>

\* onChange of the name input.
SetName(n) ==
  /\ n # name
  /\ name' = n
  /\ lastEvent' = Event("other")
  /\ UNCHANGED <<weekKey, puzzleAt, game, selected, playerMoveIndex, mistakes, done, store,
                 startRef, timeMs, hintStage, now, nextTick, replay, completedAt>>
  /\ UNCHANGED <<tally, bgTheme, boardTheme, leaderboard, requests, arg, out>>

\* if (!done) return
SubmitRefusedUnlessDone(finalName) == ~done

\* if (!done || !finalName) return
SubmitRefused(finalName) == ~done \/ finalName = <<>>

\* The row submitScore inserts.
ScoreRow(finalName) ==
  [week_key |-> weekKey, name |-> finalName, time_ms |-> timeMs,
   mistakes |-> mistakes]

\* Rows of other players the table holds: one of an earlier week, one of
\* this week.
OtherRows ==
  << [week_key |-> <<"2","0","2","6","-","1","0","-","2","6">>, name |-> <<"Y">>,
      time_ms |-> 30, mistakes |-> 0],
     [week_key |-> weekKey, name |-> <<"Z">>, time_ms |-> 50, mistakes |-> 1] >>

\* A click on the submit button, which is there once done ({done && ...}),
\* runs submitScore().  MaxRows bounds the rows this page writes.
submitScore ==
  /\ done
  /\ IF SubmitRefused(clampName(name))
     THEN store' = store /\ requests' = requests
     ELSE /\ Len(SelectSeq(store, LAMBDA row :
                     \A i \in DOMAIN OtherRows : OtherRows[i] # row)) < MaxRows
          /\ store' = Append(store, ScoreRow(clampName(name)))
          /\ requests' = Append(requests, InsertRequest(Len(store) + 1))
  /\ lastEvent' = Event("submit")
  /\ UNCHANGED <<weekKey, puzzleAt, game, selected, playerMoveIndex, mistakes, done, name,
                 startRef, timeMs, hintStage, now, nextTick, replay, completedAt>>
  /\ UNCHANGED <<tally, bgTheme, boardTheme, leaderboard, arg, out>>

\* if (startRef.current) setTimeMs(Date.now() - startRef.current)
TickTimeWhenStarted == IF startRef # 0 THEN now - startRef ELSE timeMs

\* if (startRef.current && !done) setTimeMs(Date.now() - startRef.current)
TickTime == IF startRef # 0 /\ ~done THEN now - startRef ELSE timeMs

\* The interval of the timer effect fires.
Tick ==
  /\ now >= nextTick
  /\ timeMs' = TickTime
  /\ nextTick' = nextTick + TickPeriod
  /\ lastEvent' = Event("other")
  /\ UNCHANGED <<weekKey, puzzleAt, game, selected, playerMoveIndex, mistakes, done, name,
                 store, startRef, hintStage, now, replay, completedAt>>
  /\ UNCHANGED <<tally, bgTheme, boardTheme, leaderboard, requests, arg, out>>

\* Time passes; a due tick fires before more time passes.
Advance ==
  /\ now < MaxTime
  /\ now < nextTick
  /\ now' = now + TimeStep
  /\ lastEvent' = Event("other")
  /\ UNCHANGED <<weekKey, puzzleAt, game, selected, playerMoveIndex, mistakes, done, name,
                 store, startRef, timeMs, hintStage, nextTick, replay, completedAt>>
  /\ UNCHANGED <<tally, bgTheme, boardTheme, leaderboard, requests, arg, out>>

(***************************************************************************)
(* App: the themes and the leaderboard.                                    *)
(***************************************************************************)
\* The themes the user picks among.
BgThemeInputs == {"bg-neo", "bg-midnight"}
BoardThemeInputs == {"board-classic", "board-emerald"}

\* onChange of the background select.
SetBgTheme(t) ==
  /\ t # bgTheme
  /\ bgTheme' = t
  /\ lastEvent' = Event("other")
  /\ UNCHANGED <<weekKey, puzzleAt, game, selected, playerMoveIndex, mistakes, done, name,
                 store, startRef, timeMs, hintStage, now, nextTick, replay,
                 completedAt, tally, boardTheme, leaderboard, requests, arg, out>>

\* onChange of the board select.
SetBoardTheme(t) ==
  /\ t # boardTheme
  /\ boardTheme' = t
  /\ lastEvent' = Event("other")
  /\ UNCHANGED <<weekKey, puzzleAt, game, selected, playerMoveIndex, mistakes, done, name,
                 store, startRef, timeMs, hintStage, now, nextTick, replay,
                 completedAt, tally, bgTheme, leaderboard, requests, arg, out>>

\* A sequence without its i-th element.
Without(seq, i) == SubSeq(seq, 1, i - 1) \o SubSeq(seq, i + 1, Len(seq))

\* .limit(10)
LeaderboardLimit == 10

RECURSIVE InsertByTime(_, _)
\* rows, in ascending time_ms, with row put after the rows not slower than it.
InsertByTime(rows, row) ==
  IF rows = <<>> THEN <<row>>
  ELSE IF Head(rows).time_ms <= row.time_ms
       THEN <<Head(rows)>> \o InsertByTime(Tail(rows), row)
       ELSE <<row>> \o rows
RECURSIVE OrderByTime(_)
\* .order("time_ms", { ascending: true })
OrderByTime(rows) ==
  IF rows = <<>> THEN <<>>
  ELSE InsertByTime(OrderByTime(SubSeq(rows, 1, Len(rows) - 1)), rows[Len(rows)])

\* What the select of loadLeaderboard answers on a table holding rows.
TopTimes(rows) ==
  Slice(OrderByTime(SelectSeq(rows, LAMBDA row : row.week_key = weekKey)),
        0, LeaderboardLimit)

\* The frame of a response of the leaderboard table: the session is not touched.
ResponseFrame ==
  UNCHANGED <<weekKey, puzzleAt, game, selected, playerMoveIndex, mistakes, done, name,
              store, startRef, timeMs, hintStage, now, nextTick, replay,
              completedAt, tally, bgTheme, boardTheme, arg, out>>

\* The insert of submitScore has answered: loadLeaderboard() sends its select.
InsertDone(i) ==
  /\ i \in DOMAIN requests
  /\ requests[i].kind = "insert"
  /\ requests' = Append(Without(requests, i), SelectRequest(Len(store)))
  /\ leaderboard' = leaderboard
  /\ lastEvent' = Event("other")
  /\ ResponseFrame

\* loadLeaderboard calling itself again on an error.
FetchFailsAndRetries(i) ==
  /\ i \in DOMAIN requests
  /\ requests[i].kind = "select"
  /\ leaderboard' = <<>>
  /\ requests' = Append(Without(requests, i), SelectRequest(Len(store)))
  /\ lastEvent' = Event("fetch failed")
  /\ ResponseFrame

\* The select of loadLeaderboard has answered an error:
\* console.error(error); setLeaderboard([]); return
FetchFails(i) ==
  /\ i \in DOMAIN requests
  /\ requests[i].kind = "select"
  /\ leaderboard' = <<>>
  /\ requests' = Without(requests, i)
  /\ lastEvent' = Event("fetch failed")
  /\ ResponseFrame

\* The select of loadLeaderboard has answered the rows the table held at some
\* moment since the request was sent: setLeaderboard(data || [])
FetchSucceeds(i) ==
  /\ i \in DOMAIN requests
  /\ requests[i].kind = "select"
  /\ \E held \in requests[i].seen..Len(store) :
       leaderboard' = TopTimes(SubSeq(store, 1, held))
  /\ requests' = Without(requests, i)
  /\ lastEvent' = Event("other")
  /\ ResponseFrame

\* The requests in flight at once.
RequestSlots == 1..(MaxRows + 1)

Next ==
  \/ \E sq \in ClickSquares : ClickSelect(sq)
  \/ \E sq \in ClickSquares : ClickMove(sq)
  \/ \E sq \in ClickSquares : ClickNothing(sq)
  \/ HintClick
  \/ restartPuzzle
  \/ \E n \in NameInputs : SetName(n)
  \/ submitScore
  \/ Tick
  \/ Advance

Spec == Init /\ [][Next]_vars

\* The page of a visitor who plays and restarts without submitting: the
\* session with its themes and the answer to the select sent when the page
\* was mounted.
InitPage == \E saved \in NameInputs : Trim(saved) # <<>> /\ InitWith(saved, OtherRows)
NextPage ==
  \/ \E sq \in ClickSquares : ClickSelect(sq)
  \/ \E sq \in ClickSquares : ClickMove(sq)
  \/ \E sq \in ClickSquares : ClickNothing(sq)
  \/ HintClick
  \/ restartPuzzle
  \/ Tick
  \/ Advance
  \/ \E t \in BgThemeInputs : SetBgTheme(t)
  \/ \E t \in BoardThemeInputs : SetBoardTheme(t)
  \/ \E i \in RequestSlots : FetchFails(i)
  \/ \E i \in RequestSlots : FetchSucceeds(i)

SpecPage == InitPage /\ [][NextPage]_vars

\* The leaderboard: a visitor with a saved name who plays, submits and
\* restarts, and the answers of the leaderboard table in any order.
InitNet == \E saved \in NameInputs : Trim(saved) # <<>> /\ InitWith(saved, <<>>)
NextNet ==
  \/ \E sq \in ClickSquares : ClickSelect(sq)
  \/ \E sq \in ClickSquares : ClickMove(sq)
  \/ \E sq \in ClickSquares : ClickNothing(sq)
  \/ restartPuzzle
  \/ submitScore
  \/ \E i \in RequestSlots : InsertDone(i)
  \/ \E i \in RequestSlots : FetchFails(i)
  \/ \E i \in RequestSlots : FetchSucceeds(i)

SpecNet == InitNet /\ [][NextNet]_vars

\* The same page opened on a table that already holds rows of other players:
\* the select sent at mount is in flight, and may stay so while the puzzle is
\* solved and the score submitted.
SpecBoard ==
  /\ \E saved \in NameInputs : Trim(saved) # <<>> /\ InitWith(saved, OtherRows)
  /\ [][NextNet]_vars

(***************************************************************************)
(* Properties of the puzzle session.                                       *)
(* lastEvent'.kind on a step that changes the state names the event the    *)
(* step handled: every action sets it, a move attempt from AttemptKind in  *)
(* the state before.                                                       *)
(***************************************************************************)
LegalAttemptKinds == {"wrong", "correct"}
SlotFrom(slot) == SubSeq(SolutionAt(2 * slot), 1, 2)
\* ... and the square the half-move u goes to
UciTo(u) == SubSeq(u, 3, 4)

\* C1: from a fresh session, once the five player half-moves of the solution
\* line have been attempted in order with nothing else attempted, the
\* session is complete with no mistake counted (and after k of them it waits
\* at slot k with no mistake).
C1_ReplayCompletes ==
  /\ replay = REQUIRED_PLAYER_MOVES => done /\ mistakes = 0
  /\ replay >= 0 => playerMoveIndex = replay /\ mistakes = 0
C1_Witness == replay = REQUIRED_PLAYER_MOVES /\ done /\ playerMoveIndex = 5

\* C2: a legal move attempt that differs from the expected half-move adds
\* exactly 1 to mistakes, leaves playerMoveIndex and done as they were, and
\* leaves the board in the position it had before the attempt.
C2_WrongMoveCountedAndReverted ==
  [][ lastEvent'.kind = "wrong" =>
        /\ ~done
        /\ mistakes' = mistakes + 1
        /\ playerMoveIndex' = playerMoveIndex
        /\ done' = done
        /\ game'.pos = game.pos
        /\ Fen(game') = Fen(game) ]_vars
C2_Witness == lastEvent.kind = "wrong" /\ mistakes = 1 /\ playerMoveIndex = 2

\* C3: a move attempt the rules adapter rejects changes nothing: board,
\* playerMoveIndex, mistakes, done, hintStage, the timer's start instant and
\* the elapsed time are as before.
C3_IllegalMoveChangesNothing ==
  [][ lastEvent'.kind = "illegal" =>
        UNCHANGED <<game, playerMoveIndex, mistakes, done, hintStage, startRef,
                    timeMs>> ]_vars
C3_Witness ==
  /\ lastEvent.kind = "illegal" /\ lastEvent.hint = 2 /\ hintStage = 2
  /\ startRef # 0 /\ mistakes = 1

\* C4: after the expected move at slot s < 4 the session waits at slot s + 1
\* and the board is the board before with the player's move and then the
\* scripted reply applied; after the expected fifth move the session is
\* complete and only the player's move is applied.
C4_CorrectMoveAndReply ==
  [][ lastEvent'.kind = "correct" =>
        /\ playerMoveIndex \in 0..(REQUIRED_PLAYER_MOVES - 1)
        /\ playerMoveIndex' = playerMoveIndex + 1
        /\ mistakes' = mistakes
        /\ \A played \in {MakeMove(game.pos, SlotFrom(playerMoveIndex),
                                   UciTo(SolutionAt(2 * playerMoveIndex)), "q")} :
             IF playerMoveIndex < REQUIRED_PLAYER_MOVES - 1
             THEN /\ ~done'
                  /\ game'.pos = MakeMove(played,
                                          SubSeq(SolutionAt(2 * playerMoveIndex + 1), 1, 2),
                                          UciTo(SolutionAt(2 * playerMoveIndex + 1)), "q")
             ELSE /\ done'
                  /\ game'.pos = played ]_vars
C4_Witness == lastEvent.kind = "correct" /\ playerMoveIndex = 4 /\ ~done

\* C5: the leaderboard is written only by a submit while the session is
\* complete and the name is not blank after trimming, and then by one row; a
\* submit with a blank name, or any other event, writes nothing.
C5_WriteOnlyWhenDoneAndNamed ==
  [][ store' # store =>
        /\ lastEvent'.kind = "submit"
        /\ done
        /\ Trim(name) # <<>>
        /\ Len(store') = Len(store) + 1
        /\ SubSeq(store', 1, Len(store)) = store
        /\ store'[Len(store')].name = Slice(Trim(name), 0, NameLimit) ]_vars
C5_Witness ==
  /\ Len(store) = 1 /\ lastEvent.kind = "submit" /\ done
  /\ name # <<>> /\ Trim(name) = <<>>

\* C6: the timer is not started, and the elapsed time is 0, exactly until the
\* first legal move attempt of the session (wrong or correct), which starts
\* it at that instant; once started, nothing but a restart changes its start
\* instant.
C6_TimerStartsOnceOnFirstLegalAttempt ==
  /\ [](startRef = 0 => timeMs = 0 /\ mistakes = 0 /\ playerMoveIndex = 0)
  /\ [][ /\ lastEvent'.kind \in LegalAttemptKinds =>
              startRef' = (IF startRef = 0 THEN now ELSE startRef)
         /\ (startRef = 0 /\ startRef' # 0) => lastEvent'.kind \in LegalAttemptKinds
         /\ (startRef # 0 /\ startRef' # startRef) =>
              lastEvent'.kind = "restart" /\ startRef' = 0 ]_vars
C6_Witness ==
  /\ lastEvent.kind \in LegalAttemptKinds
  /\ startRef = NowInit /\ now > NowInit /\ mistakes = 1 /\ playerMoveIndex = 1

\* C7: the elapsed time changes only by a tick while the timer is started
\* and the session is not complete, or by a restart; once the session is
\* complete it does not change until the restart.
C7_TimerStopsAtCompletion ==
  [][ timeMs' # timeMs =>
        \/ lastEvent'.kind = "restart" /\ timeMs' = 0
        \/ /\ startRef # 0 /\ ~done
           /\ timeMs' = now - startRef
           /\ nextTick' = nextTick + TickPeriod
           /\ UNCHANGED <<game, playerMoveIndex, mistakes, done, startRef>> ]_vars
\* A tick has fired since the session was completed, later than the elapsed
\* time shown.
C7_Witness ==
  /\ done /\ completedAt # 0
  /\ nextTick > completedAt + TickPeriod
  /\ now - startRef > timeMs

\* C8: the elapsed milliseconds of a submitted row are the time from the
\* timer's start to the moment the session was completed.
C8_RowTimeIsCompletionTime ==
  [][ store' # store =>
        store'[Len(store')].time_ms = completedAt - startRef ]_vars

\* C9: a hint request maps stage 0 to 1, 1 to 2 and 2 to 0, is made only
\* while the session waits for a move, and changes nothing else of the
\* session.
C9_HintStageCycles ==
  [][ lastEvent'.kind = "hint" =>
        /\ ~done
        /\ hintStage \in 0..2
        /\ hintStage' = (hintStage + 1) % 3
        /\ UNCHANGED <<game, selected, playerMoveIndex, mistakes, done, startRef,
                       timeMs, name, store>> ]_vars
C9_Witness == lastEvent.kind = "hint" /\ lastEvent.hint = 2 /\ hintStage = 0

\* C10: a legal move attempt, wrong or expected, leaves the hint stage at 0
\* whatever it was before.
C10_LegalAttemptResetsHint ==
  [][ lastEvent'.kind \in LegalAttemptKinds => hintStage' = 0 ]_vars
C10_Witness ==
  /\ lastEvent.kind = "correct" /\ lastEvent.hint = 2 /\ hintStage = 0
  /\ mistakes = 1

\* C11: the hint button is disabled when the session is complete or no next
\* expected move exists; in every state where the session is complete the
\* hint stage is 0 and no hint square is revealed, so that no hint request
\* changes the stage there.
C11_NoHintOnceComplete ==
  /\ done => hintStage = 0 /\ hintSquares = NoHint
  /\ (done \/ nextPlayerUci = <<>>) => HintDisabled
  /\ hintStage \in 0..2
C11_Witness ==
  /\ done /\ hintStage = 0
  /\ lastEvent.kind = "correct" /\ lastEvent.hint = 2

\* The position each puzzle of the catalog starts from.
StartPositions == [i \in DOMAIN PUZZLES |-> ParseFenRule(PUZZLES[i].fen)]

\* C12: a restart leaves the board at the puzzle's start position, slot 0,
\* no mistake, not complete, nothing selected, hint stage 0, the timer not
\* started and the elapsed time 0, and leaves the player name, the two themes
\* and the leaderboard displayed as they were.
C12_RestartResetsSession ==
  [][ lastEvent'.kind = "restart" =>
        /\ game'.pos = StartPositions[puzzleAt]
        /\ game'.history = <<>>
        /\ Fen(game') = puzzle.fen
        /\ playerMoveIndex' = 0
        /\ mistakes' = 0
        /\ done' = FALSE
        /\ selected' = NoSelection
        /\ hintStage' = 0
        /\ startRef' = 0
        /\ timeMs' = 0
        /\ UNCHANGED <<name, bgTheme, boardTheme, leaderboard>> ]_vars
\* A restart made at hint stage 2, with both themes changed and rows on
\* display.
C12_Witness ==
  /\ lastEvent.kind = "restart" /\ lastEvent.hint = 2
  /\ playerMoveIndex = 0 /\ startRef = 0 /\ timeMs = 0
  /\ bgTheme = "bg-midnight" /\ boardTheme = "board-emerald"
  /\ leaderboard # <<>> /\ name # <<>>

(***************************************************************************)
(* The helper functions, each applied on its own to the inputs drawn.      *)
(***************************************************************************)
\* A helper function is applied to arg and returns value.
Returns(value) ==
  /\ out = NoValue
  /\ out' = value
  /\ UNCHANGED <<appVars, arg>>

\* n times the character ch.
Repeat(ch, n) == [i \in 1..n |-> ch]
\* The names given to clampName: every short name, and names about as long
\* as the limit with a blank inside.
NameArgs ==
  UNION { [1..n -> {" ", "a"}] : n \in 0..MaxShortName }
    \cup { Repeat(" ", l) \o Repeat("a", n) \o <<" ">> \o Repeat("a", m) \o Repeat(" ", l) :
             l \in 0..1, n \in (NameLimit - 2)..NameLimit, m \in 0..2 }

applyClampName == Returns(clampName(arg))
SpecName ==
  /\ Mounted(<<>>, <<>>) /\ arg \in NameArgs /\ out = NoValue
  /\ [][applyClampName]_vars

\* C13: the name written in a row, clampName of the input name when that is
\* not empty, has at most 24 characters and neither starts nor ends with
\* whitespace.
C13_RowNameClampedAndTrimmed ==
  (out # NoValue /\ out # <<>>) =>
    /\ Len(out) <= NameLimit
    /\ ~IsSpace(out[1])
    /\ ~IsSpace(out[Len(out)])

\* C14: when a select of the leaderboard fails, the leaderboard displayed
\* becomes the empty list, the session (board, selection, slot, mistakes,
\* completion, hint stage, timer) and the table are as before, and no request
\* is sent: the requests in flight are the former ones less the one answered.
C14_FetchFailureEmptiesDisplayOnly ==
  [][ lastEvent'.kind = "fetch failed" =>
        /\ leaderboard' = <<>>
        /\ UNCHANGED <<game, selected, playerMoveIndex, mistakes, done, hintStage,
                       startRef, timeMs, name, store>>
        /\ \E i \in DOMAIN requests :
             /\ requests[i].kind = "select"
             /\ requests' = SubSeq(requests, 1, i - 1)
                              \o SubSeq(requests, i + 1, Len(requests)) ]_vars
\* The select sent after a submission has failed: a row is in the table, none
\* is displayed and nothing is in flight.
C14_Witness ==
  /\ lastEvent.kind = "fetch failed"
  /\ done /\ store # <<>> /\ leaderboard = <<>> /\ requests = <<>>

\* C18: while the session is not complete playerMoveIndex is within 0..4; the
\* session is complete exactly when 5 expected moves have been made since the
\* last restart; playerMoveIndex decreases only by a restart, and it increases
\* only by 1 and only by a move attempt.
C18_SlotRangeAndCompletion ==
  /\ [](/\ ~done => playerMoveIndex \in 0..(REQUIRED_PLAYER_MOVES - 1)
        /\ done <=> tally.correct = REQUIRED_PLAYER_MOVES
        /\ playerMoveIndex = tally.correct)
  /\ [][ /\ playerMoveIndex' < playerMoveIndex => lastEvent'.kind = "restart"
         /\ playerMoveIndex' > playerMoveIndex =>
              /\ playerMoveIndex' = playerMoveIndex + 1
              /\ lastEvent'.kind = "correct"
              /\ selected # NoSelection ]_vars
\* Completion after a wrong attempt, hints and ticks on the way.
C18_Witness ==
  /\ done /\ tally = [correct |-> REQUIRED_PLAYER_MOVES, wrong |-> 1]
  /\ timeMs > 0 /\ lastEvent.kind = "correct" /\ lastEvent.hint = 1

\* C19: a move attempt made once the session is complete, legal or not,
\* leaves the board, playerMoveIndex, mistakes and done as they were; and the
\* mistakes of a row written are the legal-but-wrong attempts made since the
\* last restart.
C19_NoAttemptCountsOnceComplete ==
  [][ /\ (done /\ lastEvent'.kind \in {"ignored", "illegal", "wrong", "correct"}) =>
           /\ lastEvent'.kind = "ignored"
           /\ UNCHANGED <<game, playerMoveIndex, mistakes, done>>
      /\ store' # store => store'[Len(store')].mistakes = tally.wrong ]_vars
\* A row with the one mistake of the session has been written, and an attempt
\* made after it on the complete session (the black king is the only piece
\* the clicks can pick up then) has been ignored.
C19_Witness ==
  /\ lastEvent.kind = "ignored" /\ store # <<>>
  /\ store[1].mistakes = 1 /\ tally.wrong = 1 /\ mistakes = 1
  /\ selected = NoSelection /\ Turn(game) = "b"

\* C20: with nothing selected no move attempt is made and nothing but a
\* restart changes the board, the slot, the mistakes or completion; a step that
\* selects a square selects one that holds a piece of the side to move and
\* changes nothing else of the session.  A move attempt happens only with a
\* square selected, is one attempt, moves the piece of the selected square
\* when it is the expected move, and leaves nothing selected, whether it was
\* ignored, illegal, wrong or correct; a selection is left only by an attempt
\* or a restart.
C20_SelectThenMove ==
  [][ /\ selected = NoSelection =>
           /\ lastEvent'.kind \notin {"ignored", "illegal", "wrong", "correct"}
           /\ lastEvent'.kind # "restart" =>
                UNCHANGED <<game, playerMoveIndex, mistakes, done, tally>>
           /\ selected' # NoSelection =>
                /\ Get(game, sqName(selected'.r, selected'.c)) # NoPiece
                /\ Get(game, sqName(selected'.r, selected'.c)).color = Turn(game)
                /\ UNCHANGED <<hintStage, startRef, timeMs, name, store>>
      /\ lastEvent'.kind \in {"ignored", "illegal", "wrong", "correct"} =>
           /\ selected # NoSelection
           /\ selected' = NoSelection
           /\ tally'.correct + tally'.wrong <= tally.correct + tally.wrong + 1
           /\ lastEvent'.kind = "correct" =>
                sqName(selected.r, selected.c) = SlotFrom(playerMoveIndex)
      /\ (selected # NoSelection /\ selected' # selected) =>
           /\ selected' = NoSelection
           /\ lastEvent'.kind \in {"ignored", "illegal", "wrong", "correct", "restart"}
    ]_vars
\* An illegal attempt has just put the selection down, after a wrong and two
\* correct ones did.
C20_Witness ==
  /\ lastEvent.kind = "illegal" /\ selected = NoSelection
  /\ tally = [correct |-> 2, wrong |-> 1] /\ ~done

-----------------------------------------------------------------------------
\* Dates.  A Date is an instant, counted in minutes from 1970-01-01T00:00Z (a
\* Thursday); a client reads its local fields at a fixed offset from UTC, in
\* minutes, east positive.

MinutesPerDay == 24 * 60
FloorDiv(a, b) == IF a >= 0 THEN a \div b ELSE -((-a + b - 1) \div b)
DayOf(minutes) == FloorDiv(minutes, MinutesPerDay)

RECURSIVE Padded(_, _)
\* n in decimal, padded with zeros to the given width
Padded(n, width) ==
  IF width = 0 THEN <<>>
  ELSE Append(Padded(n \div 10, width - 1), DigitChars[(n % 10) + 1])

\* The proleptic Gregorian date of a day counted from 1970-01-01.
CivilFromDays(z) ==
  LET shifted == z + 719468
      era     == FloorDiv(shifted, 146097)
      doe     == shifted - era * 146097
      yoe     == (doe - (doe \div 1460) + (doe \div 36524) - (doe \div 146096)) \div 365
      doy     == doe - (365 * yoe + (yoe \div 4) - (yoe \div 100))
      mp      == (5 * doy + 2) \div 153
      m       == IF mp < 10 THEN mp + 3 ELSE mp - 9
  IN  [year  |-> yoe + era * 400 + (IF m <= 2 THEN 1 ELSE 0),
       month |-> m,
       day   |-> doy - ((153 * mp + 2) \div 5) + 1]
DateString(z) ==
  LET c == CivilFromDays(z)
  IN  Padded(c.year, 4) \o <<"-">> \o Padded(c.month, 2) \o <<"-">> \o Padded(c.day, 2)

\* d.toISOString().slice(0, 10): the date in UTC
yyyyMmDd(d) == DateString(DayOf(d))

\* dt.getDay() of the client: 0 Sun..6 Sat
getDay(dt, offset) == (DayOf(dt + offset) + 4) % 7
\* dt.setDate(dt.getDate() + diff); dt.setHours(0, 0, 0, 0): the local midnight
\* of the local day moved by diff
LocalMidnight(dt, offset, diff) == (DayOf(dt + offset) + diff) * MinutesPerDay - offset

\* getWeekKey without the move to Monday.
getWeekKeyOfDay(date, offset) ==
  yyyyMmDd(LocalMidnight(date, offset, 0))

getWeekKey(date, offset) ==
  LET day  == getDay(date, offset)
      diff == (IF day = 0 THEN -6 ELSE 1) - day
  IN  yyyyMmDd(LocalMidnight(date, offset, diff))

\* The dates tried: three times of day on each local day of a window that
\* holds one whole week, the Sunday before it and the Monday after it.
FirstDay == 20758
WindowDays == 9
TimesOfDay == {0, 12 * 60, MinutesPerDay - 1}
LocalDays == FirstDay..(FirstDay + WindowDays - 1)
WeekArgs ==
  UNION { { [first  |-> d1 * MinutesPerDay + t1 - off,
             second |-> d2 * MinutesPerDay + t2 - off,
             offset |-> off] : d1 \in LocalDays, d2 \in LocalDays,
                               t1 \in TimesOfDay, t2 \in TimesOfDay }
          : off \in {-480, 0, 60, 330} }

applyGetWeekKey ==
  Returns(<<getWeekKey(arg.first, arg.offset), getWeekKey(arg.second, arg.offset)>>)
SpecWeek ==
  /\ Mounted(<<>>, <<>>) /\ arg \in WeekArgs /\ out = NoValue
  /\ [][applyGetWeekKey]_vars

\* The local day that is the Monday of the week of a date, by counting weeks
\* from Monday 1969-12-29.
MondayOf(date, offset) == FloorDiv(DayOf(date + offset) + 3, 7) * 7 - 3

\* C15: two dates of one client that fall in the same week, Monday 00:00
\* through Sunday 23:59 local time, have the same week key, and so the same
\* puzzle.
C15_SameWeekSameKey ==
  (out # NoValue /\ MondayOf(arg.first, arg.offset) = MondayOf(arg.second, arg.offset))
     => /\ out[1] = out[2]
        /\ pickWeeklyPuzzle(out[1]) = pickWeeklyPuzzle(out[2])
\* A Monday 00:00 and the Sunday 23:59 that ends its week, east of UTC.
C15_Witness ==
  /\ out # NoValue
  /\ arg.offset > 0
  /\ arg.second - arg.first = 7 * MinutesPerDay - 1
  /\ getDay(arg.first, arg.offset) = 1
  /\ out[1] = out[2]

\* C16: the week key of a date is the calendar date of the Monday of the
\* date's week, as YYYY-MM-DD, whatever the client's offset from UTC.
C16_KeyIsMondaysDate ==
  out # NoValue => out[1] = DateString(MondayOf(arg.first, arg.offset))

-----------------------------------------------------------------------------
\* pickWeeklyPuzzle over week keys and catalog sizes.

MaxKeys == 40
MaxCatalog == 7
PickArgs ==
  { [key |-> k, size |-> n] :
      k \in { <<>>, <<"0">>, <<"-", "9">>, <<"9", "9", "9", "9", "9", "9">> } \cup { DateString(FirstDay + 7 * i) : i \in 0..(MaxKeys - 1) },
      n \in 1..MaxCatalog }

\* The value returned is the entry of the catalog at the index: <<"entry", index>>.
applyPickWeeklyPuzzle == Returns(<<"entry", pickIndex(arg.key, arg.size)>>)
SpecPick ==
  /\ Mounted(<<>>, <<>>) /\ arg \in PickArgs /\ out = NoValue
  /\ [][applyPickWeeklyPuzzle]_vars

\* The polynomial code[1]*31^(k-1) + ... + code[k] as a whole number of any
\* size, written in bytes from the lowest.
RECURSIVE TimesPlus(_, _, _)
TimesPlus(bytes, k, carry) ==
  IF bytes = <<>>
    THEN IF carry = 0 THEN <<>> ELSE <<carry % 256>> \o TimesPlus(<<>>, k, carry \div 256)
    ELSE LET v == Head(bytes) * k + carry
         IN  <<v % 256>> \o TimesPlus(Tail(bytes), k, v \div 256)
RECURSIVE Polynomial(_, _)
Polynomial(s, acc) ==
  IF s = <<>> THEN acc ELSE Polynomial(Tail(s), TimesPlus(acc, 31, CharCodes[Head(s)]))
RECURSIVE Remainder(_, _, _)
\* The remainder by n of the number whose lowest bytes are given, the bytes
\* taken from the highest down.
Remainder(bytes, n, acc) ==
  IF bytes = <<>> THEN acc
  ELSE Remainder(SubSeq(bytes, 1, Len(bytes) - 1), n, (acc * 256 + bytes[Len(bytes)]) % n)
\* (polynomial mod 2^32) mod n
PolynomialIndex(wk, n) ==
  LET bytes == Polynomial(wk, <<>>)
  IN  Remainder(SubSeq(bytes, 1, Min(4, Len(bytes))), n, 0)

\* C17: for every week key and every catalog size n >= 1 the index chosen is
\* (the multiply-by-31 polynomial of the character codes, modulo 2^32) mod n,
\* and it lies in 0..n-1.
C17_IndexIsHashModSize ==
  out # NoValue =>
     /\ out[2] = PolynomialIndex(arg.key, arg.size)
     /\ out[2] \in 0..(arg.size - 1)
\* A week key whose polynomial exceeds 32 bits, in a catalog where it picks
\* neither the first nor the last entry.
C17_Witness ==
  /\ out # NoValue
  /\ Len(arg.key) = 10
  /\ Len(Polynomial(arg.key, <<>>)) > 4
  /\ out[2] \in 1..(arg.size - 2)

\* C21: once every response has been delivered, the leaderboard displayed is
\* the result of the select sent last.  After a submission that select was
\* sent when the last insert had completed, so its result is the top times of
\* the whole table, or the empty list if it failed: no older response leaves a
\* list that lacks a row written before it.
C21_LatestFetchIsDisplayed ==
  (requests = <<>> /\ Len(store) > Len(OtherRows)) =>
     leaderboard \in {<<>>, TopTimes(store)}

=============================================================================
